---- MODULE Spec2Model ----
(***************************************************************************)
(* A model of the xarray-tutorial repository:                              *)
(*   - scipy-tutorial/03_computation_with_xarray.ipynb, a notebook whose   *)
(*     code cells are run once, top to bottom (Spec), and whose array      *)
(*     expressions are evaluated on small labelled grids (SpecGrid);       *)
(*   - the pre-commit configuration (SpecHooks).                           *)
(***************************************************************************)
EXTENDS Integers, Sequences, FiniteSets, TLC

VARIABLES
    store,      \* the remote ERSST store read by the load cell: its shape
    pc,         \* index of the next code cell to run (1..NCells+1)
    env,        \* the kernel namespace: variable name -> value
    raised,     \* <<cell, exception>> for every exception raised in a cell
    binder,     \* ghost: the cell that last bound each name (0: none)
    halted,     \* an uncaught exception stopped the run
    config,     \* the parsed pre-commit configuration
    hookPos,    \* number of hooks of the configuration already run
    outcomes,   \* the outcome of each hook run so far
    grid,       \* the dataset of a grid run
    gpc,        \* the next expression of a grid run to evaluate
    res,        \* the results of the expressions of a grid run
    assignGroupCoord  \* whether the installed xarray gives a transformed
                \* result the group variable as a coordinate

nbvars == <<store, pc, env, binder, raised, halted>>
hookvars == <<config, hookPos, outcomes>>
gridvars == <<grid, gpc, res, assignGroupCoord>>
vars == <<nbvars, hookvars, gridvars>>

(***************************************************************************)
(* Bounds and constants of the data.                                       *)
(***************************************************************************)
MaxEarlier == 1        \* years the store may hold before FirstSelYear
MaxLater == 1          \* years the store may hold after LastSelYear
MaxLen == 13           \* dimension lengths tried on coarsen

MonthsPerYear == 12    \* the store holds monthly means
NLat == 89             \* ERSST v5 grid: latitudes 88, 86, ..., -88
NLon == 180            \* ERSST v5 grid: longitudes 0, 2, ..., 358
CoarsenTimeWindow == 12
CoarsenSpaceWindow == 4
ResampleYears == 5
FirstSelYear == 1960   \* sel(time="1960-01-01")
LastSelYear == 2018    \* sel(time="2018-01-01")
SelLat == 50           \* sel(lon=300, lat=50)
SelLon == 300
SelMonthA == 1         \* ds_mm.sst.sel(month=1)
SelMonthB == 7         \* ds_mm.sst.sel(month=7)
LatTop == 88           \* first latitude label of the store
GridStep == 2          \* spacing of the store's latitude and longitude labels

(***************************************************************************)
(* Values of the namespace.  Arrays are described by their ordered         *)
(* dimension names, the length of each dimension and the names of their    *)
(* non-index coordinates.                                                  *)
(***************************************************************************)
Unbound == [kind |-> "unbound"]
Obj(k) == [kind |-> k]
Arr(k, dims, size, labels, aux) ==
    [kind |-> k, dims |-> dims, size |-> size, labels |-> labels, aux |-> aux]

Names ==
    {"expectexception", "np", "xr", "plt", "gcsfs", "fs", "ds", "sst_kelvin",
     "f", "gsw", "sst", "weights", "sst_mean", "sst_weighted", "gb",
     "group_name", "group_ds", "time_mean", "ds_mm", "remove_time_mean",
     "ds_anom", "resample_obj", "ds_anom_resample", "ds_anom_rolling",
     "ds_anom_coarsen_time", "ds_anom_coarsen_space", "basin"}

Bound(e) == {n \in Names : e[n] # Unbound}

Range(s) == {s[i] : i \in DOMAIN s}

Ok(out) == [exc |-> "none", out |-> out]
Raise(x) == [exc |-> x, out |-> <<>>]

(***************************************************************************)
(* Shapes of the results of the array operations the cells call.           *)
(***************************************************************************)
StoreSize(st) ==
    ("time" :> MonthsPerYear * (st.last - st.first + 1))
        @@ ("lat" :> NLat) @@ ("lon" :> NLon)

StoreLabels == ("time" :> "store") @@ ("lat" :> "store") @@ ("lon" :> "store")

\* xr.open_zarr(...).load()
OpenZarr(st) ==
    Arr("Dataset", <<"time", "lat", "lon">>, StoreSize(st), StoreLabels, {})

\* ds.sst
DataVar(d) == [d EXCEPT !.kind = "DataArray"]

\* ds.lat, and an element-wise function of it
CoordArray(d, c) ==
    Arr("DataArray", <<c>>, (c :> d.size[c]), (c :> d.labels[c]), {})

SeqMinus(s, drop) == SelectSeq(s, LAMBDA x : x \notin drop)

Restrict(fn, keep) == [x \in (DOMAIN fn) \cap keep |-> fn[x]]

\* a reduction over the dimensions rdims
Reduce(v, rdims) ==
    LET dims == SeqMinus(v.dims, rdims)
    IN  Arr(v.kind, dims, Restrict(v.size, Range(dims)),
            Restrict(v.labels, Range(dims)), {})

\* binary arithmetic of a with b: dimensions are matched by name
BroadcastShape(a, b) ==
    LET extra == SeqMinus(b.dims, Range(a.dims))
    IN  Arr(a.kind, a.dims \o extra, a.size @@ b.size, a.labels @@ b.labels,
            a.aux \cup b.aux)

\* position of a label on the store's coordinate, 0 when it is not a label
LabelIndex(st, d, label) ==
    CASE d = "lat" ->
            IF label <= LatTop /\ (LatTop - label) % GridStep = 0
            THEN (LatTop - label) \div GridStep + 1 ELSE 0
      [] d = "lon" ->
            IF label >= 0 /\ label % GridStep = 0
            THEN label \div GridStep + 1 ELSE 0
      [] d = "time" ->   \* label: a year, standing for its first of January
            IF label >= st.first THEN MonthsPerYear * (label - st.first) + 1 ELSE 0
      [] d = "month" -> IF label >= 1 THEN label ELSE 0

\* .sel(d=label) finds the label
HasLabel(st, v, d, label) ==
    /\ d \in Range(v.dims)
    /\ v.labels[d] \in {"store", "months"}
    /\ LabelIndex(st, d, label) \in 1..v.size[d]

\* .sel(lon=300, lat=50)
SelPointOk(st, v) == HasLabel(st, v, "lat", SelLat) /\ HasLabel(st, v, "lon", SelLon)

\* ds.groupby(<month of time>): one group per distinct month
Min(a, b) == IF a < b THEN a ELSE b

GroupBy(d) ==
    [kind |-> "GroupBy", obj |-> d, ngroups |-> Min(d.size["time"], MonthsPerYear)]

\* gb.mean(dim="time"), gb.map(time_mean)
GroupMean(g) ==
    LET rest == SeqMinus(g.obj.dims, {"time"})
    IN  Arr("Dataset", <<"month">> \o rest,
            ("month" :> g.ngroups) @@ Restrict(g.obj.size, Range(rest)),
            ("month" :> "months") @@ Restrict(g.obj.labels, Range(rest)), {})

\* gb.map(remove_time_mean): the groups are concatenated back along time
GroupTransform(g) == g.obj

\* gb - gb.mean(dim="time"): each group minus the selected month of the mean
GroupArith(g, m) == [g.obj EXCEPT !.aux = @ \cup {"month"}]

\* ds_anom.resample(time="5Y"): bins closed and labelled at year ends
ResampleBins(st) == 1 + ((st.last - st.first) + ResampleYears - 1) \div ResampleYears

Resample(st, d) == [kind |-> "Resample", obj |-> d, bins |-> ResampleBins(st)]

ResampleMean(r) ==
    [r.obj EXCEPT !.size["time"] = r.bins, !.labels["time"] = "bins", !.aux = {}]

\* ds_anom.rolling(time=12, center=True).mean()
RollingMean(d) == d

\* .isel(lat=slice(0, -1))
IselKeepAll(d, c) == d

IselDropLast(d, c) ==
    [d EXCEPT !.size[c] = IF @ > 0 THEN @ - 1 ELSE 0]

\* .coarsen(**windows).mean(): with the default boundary="exact" a dimension
\* whose length is not n * window raises ValueError
CoarsenedShape(d, windows) ==
    [d EXCEPT !.size = [c \in DOMAIN d.size |->
                           IF c \in DOMAIN windows
                           THEN d.size[c] \div windows[c] ELSE d.size[c]],
              !.labels = [c \in DOMAIN d.labels |->
                           IF c \in DOMAIN windows THEN "coarse" ELSE d.labels[c]]]

CoarsenBoundaryTrim(d, windows) == Ok(CoarsenedShape(d, windows))

Coarsen(d, windows) ==
    IF \E c \in DOMAIN windows : (d.size[c] \div windows[c]) * windows[c] # d.size[c]
    THEN Raise("ValueError")
    ELSE Ok(CoarsenedShape(d, windows))

TimeWindow == ("time" :> CoarsenTimeWindow)
SpaceWindows == ("lon" :> CoarsenSpaceWindow) @@ ("lat" :> CoarsenSpaceWindow)

(***************************************************************************)
(* The code cells.  A cell is a sequence of statements; a statement names  *)
(* the variables it reads and the operation it evaluates.                  *)
(***************************************************************************)
S(op, reads) == [op |-> op, reads |-> reads]
Cell(line, magic, stmts) == [line |-> line, magic |-> magic, stmts |-> stmts]

Cells == <<
    Cell(33, "none", << S("import expectexception", {}), S("import np", {}),
                        S("import xr", {}), S("import plt", {}) >>),
    Cell(61, "none", << >>),
    Cell(78, "none", << S("import gcsfs", {}), S("fs", {"gcsfs"}),
                        S("ds", {"xr", "fs"}), S("show", {"ds"}) >>),
    Cell(101, "none", << S("ds.sst[0]", {"ds"}) >>),
    Cell(123, "none", << S("sst_kelvin", {"ds"}), S("show", {"sst_kelvin"}) >>),
    Cell(152, "none", << S("f", {"np", "sst_kelvin"}), S("show", {"f"}) >>),
    Cell(177, "none", << S("import gsw", {}), S("show", {"gsw"}) >>),
    Cell(190, "none", << S("show", {"gsw", "ds"}) >>),
    Cell(207, "none", << S("show", {"xr", "gsw", "ds"}) >>),
    Cell(237, "none", << S("sst", {"ds"}), S("show", {"sst"}) >>),
    Cell(247, "none", << S("show", {"sst"}) >>),
    Cell(256, "none", << S("show", {"sst"}) >>),
    Cell(275, "none", << S("show", {"sst"}) >>),
    Cell(302, "none", << >>),
    Cell(328, "none", << S("weights", {"np", "ds"}), S("show", {"weights"}) >>),
    Cell(346, "none", << S("show", {"ds", "weights"}) >>),
    Cell(375, "none", << S("sst_mean", {"ds", "weights"}), S("show", {"sst_mean"}),
                         S("show", {"plt"}) >>),
    Cell(400, "none", << S("sst_weighted", {"ds", "weights"}),
                         S("show", {"sst_weighted"}) >>),
    Cell(410, "none", << S("show", {"sst_weighted"}), S("show", {"plt"}) >>),
    Cell(433, "none", << S("ds.sel point", {"ds"}) >>),
    Cell(455, "none", << S("show", {"ds"}) >>),
    Cell(471, "none", << S("show", {"ds"}) >>),
    Cell(494, "none", << S("show", {"ds"}) >>),
    Cell(503, "none", << S("show", {"ds"}) >>),
    Cell(526, "none", << S("gb", {"ds"}), S("show", {"gb"}) >>),
    Cell(544, "none", << S("gb", {"ds"}), S("show", {"gb"}) >>),
    Cell(563, "none", << S("for group", {"gb"}), S("show", {"group_name"}),
                         S("show", {"group_ds"}) >>),
    Cell(594, "none", << S("show", {"gb"}) >>),
    Cell(612, "none", << S("show", {"gb", "np"}) >>),
    Cell(631, "none", << S("def time_mean", {}), S("show", {"gb", "time_mean"}) >>),
    Cell(652, "none", << S("ds_mm", {"gb"}), S("show", {"ds_mm"}) >>),
    Cell(673, "none", << S("ds_mm.sel point", {"ds_mm"}) >>),
    Cell(689, "none", << S("show", {"ds_mm"}) >>),
    Cell(705, "none", << S("ds_mm.sel months", {"ds_mm"}) >>),
    Cell(727, "none", << S("def remove_time_mean", {}),
                         S("ds_anom map", {"ds", "remove_time_mean"}),
                         S("show", {"ds_anom"}) >>),
    Cell(749, "none", << S("gb", {"ds"}), S("ds_anom arith", {"gb"}),
                         S("show", {"ds_anom"}) >>),
    Cell(770, "none", << S("ds_anom.sel point", {"ds_anom"}) >>),
    Cell(786, "none", << S("ds_anom.sel times", {"ds_anom"}) >>),
    Cell(806, "none", << S("resample_obj", {"ds_anom"}), S("show", {"resample_obj"}) >>),
    Cell(816, "none", << S("ds_anom_resample", {"resample_obj"}),
                         S("show", {"ds_anom_resample"}) >>),
    Cell(826, "none", << S("ds_anom.sel point", {"ds_anom"}),
                         S("ds_anom_resample.sel point", {"ds_anom_resample"}) >>),
    Cell(848, "none", << S("ds_anom_rolling", {"ds_anom"}),
                         S("show", {"ds_anom_rolling"}) >>),
    Cell(858, "none", << S("ds_anom.sel point", {"ds_anom"}),
                         S("ds_anom_resample.sel point", {"ds_anom_resample"}),
                         S("ds_anom_rolling.sel point", {"ds_anom_rolling"}),
                         S("show", {"plt"}) >>),
    Cell(881, "none", << S("ds_anom_coarsen_time", {"ds_anom"}),
                         S("ds_anom_rolling.sel point", {"ds_anom_rolling"}),
                         S("ds_anom_coarsen_time.sel point", {"ds_anom_coarsen_time"}),
                         S("show", {"plt"}) >>),
    Cell(896, "expect_exception", << S("ds_anom_coarsen_space", {"ds_anom"}) >>),
    Cell(906, "none", << S("ds_anom_coarsen_space isel", {"ds_anom"}),
                         S("show", {"ds_anom_coarsen_space"}) >>),
    Cell(918, "none", << S("ds_anom_coarsen_space.sst.isel(time=0)",
                           {"ds_anom_coarsen_space"}) >>),
    Cell(941, "none", << S("basin", {"xr"}), S("show", {"basin"}) >>) >>

NCells == Len(Cells)

\* the value of an expression that only reads: nothing is bound
Show == Ok(<<>>)
Bind(name, r) == IF r.exc = "none" THEN Ok(name :> r.out) ELSE r
Check(ok, exc) == IF ok THEN Show ELSE Raise(exc)

\* sst_kelvin = ds.sst + 273.15
KelvinInPlace(e) == "ds" :> DataVar(e["ds"])

Kelvin(e) == "sst_kelvin" :> DataVar(e["ds"])

\* what one statement evaluates to in namespace e: the names it binds, or
\* the exception it raises
Eval(op, e, st) ==
    CASE op = "show" -> Show
      [] op = "import expectexception" -> Ok("expectexception" :> Obj("module"))
      [] op = "import np" -> Ok("np" :> Obj("module"))
      [] op = "import xr" -> Ok("xr" :> Obj("module"))
      [] op = "import plt" -> Ok("plt" :> Obj("module"))
      [] op = "import gcsfs" -> Ok("gcsfs" :> Obj("module"))
      [] op = "import gsw" -> Ok("gsw" :> Obj("module"))
      [] op = "fs" -> Ok("fs" :> Obj("GCSFileSystem"))
      [] op = "ds" -> Ok("ds" :> OpenZarr(st))
      [] op = "ds.sst[0]" -> Check(e["ds"].size[e["ds"].dims[1]] > 0, "IndexError")
      [] op = "sst_kelvin" -> Ok(Kelvin(e))
      [] op = "f" -> Ok("f" :> e["sst_kelvin"])
      [] op = "sst" -> Ok("sst" :> DataVar(e["ds"]))
      [] op = "weights" -> Ok("weights" :> CoordArray(e["ds"], "lat"))
      [] op = "sst_mean" ->
            Ok("sst_mean" :> Reduce(BroadcastShape(DataVar(e["ds"]), e["weights"]),
                                    {"lon", "lat"}))
      [] op = "sst_weighted" ->
            Ok("sst_weighted" :> [kind |-> "Weighted", obj |-> DataVar(e["ds"]),
                                  weights |-> e["weights"]])
      [] op = "ds.sel point" -> Check(SelPointOk(st, e["ds"]), "KeyError")
      [] op = "gb" -> Ok("gb" :> GroupBy(e["ds"]))
      [] op = "for group" ->
            IF e["gb"].ngroups > 0
            THEN Ok(("group_name" :> Obj("int")) @@
                    ("group_ds" :> [e["gb"].obj EXCEPT !.size["time"] =
                                       e["gb"].obj.size["time"] \div e["gb"].ngroups]))
            ELSE Show
      [] op = "def time_mean" -> Ok("time_mean" :> Obj("function"))
      [] op = "ds_mm" -> Ok("ds_mm" :> GroupMean(e["gb"]))
      [] op = "ds_mm.sel point" -> Check(SelPointOk(st, e["ds_mm"]), "KeyError")
      [] op = "ds_mm.sel months" ->
            Check(HasLabel(st, e["ds_mm"], "month", SelMonthA)
                    /\ HasLabel(st, e["ds_mm"], "month", SelMonthB), "KeyError")
      [] op = "def remove_time_mean" -> Ok("remove_time_mean" :> Obj("function"))
      [] op = "ds_anom map" -> Ok("ds_anom" :> GroupTransform(GroupBy(e["ds"])))
      [] op = "ds_anom arith" ->
            Ok("ds_anom" :> GroupArith(e["gb"], GroupMean(e["gb"])))
      [] op = "ds_anom.sel point" -> Check(SelPointOk(st, e["ds_anom"]), "KeyError")
      [] op = "ds_anom.sel times" ->
            Check(HasLabel(st, e["ds_anom"], "time", LastSelYear)
                    /\ HasLabel(st, e["ds_anom"], "time", FirstSelYear), "KeyError")
      [] op = "resample_obj" -> Ok("resample_obj" :> Resample(st, e["ds_anom"]))
      [] op = "ds_anom_resample" ->
            Ok("ds_anom_resample" :> ResampleMean(e["resample_obj"]))
      [] op = "ds_anom_resample.sel point" ->
            Check(SelPointOk(st, e["ds_anom_resample"]), "KeyError")
      [] op = "ds_anom_rolling" -> Ok("ds_anom_rolling" :> RollingMean(e["ds_anom"]))
      [] op = "ds_anom_rolling.sel point" ->
            Check(SelPointOk(st, e["ds_anom_rolling"]), "KeyError")
      [] op = "ds_anom_coarsen_time" ->
            Bind("ds_anom_coarsen_time", Coarsen(e["ds_anom"], TimeWindow))
      [] op = "ds_anom_coarsen_time.sel point" ->
            Check(SelPointOk(st, e["ds_anom_coarsen_time"]), "KeyError")
      [] op = "ds_anom_coarsen_space" ->
            Bind("ds_anom_coarsen_space", Coarsen(e["ds_anom"], SpaceWindows))
      [] op = "ds_anom_coarsen_space isel" ->
            Bind("ds_anom_coarsen_space",
                 Coarsen(IselDropLast(e["ds_anom"], "lat"), SpaceWindows))
      [] op = "ds_anom_coarsen_space.sst.isel(time=0)" ->
            Check(e["ds_anom_coarsen_space"].size["time"] > 0, "IndexError")
      [] op = "basin" -> Ok("basin" :> Obj("Dataset"))

\* the statements of a cell in order, from statement k on: a statement that
\* reads an unbound name raises NameError; the first exception ends the cell
\* and keeps what the earlier statements bound
RECURSIVE Exec(_, _, _, _, _)
Exec(stmts, k, e, st, b) ==
    IF k > Len(stmts) THEN [exc |-> "none", env |-> e, names |-> b]
    ELSE IF ~(stmts[k].reads \subseteq Bound(e))
         THEN [exc |-> "NameError", env |-> e, names |-> b]
    ELSE LET r == Eval(stmts[k].op, e, st)
         IN  IF r.exc # "none" THEN [exc |-> r.exc, env |-> e, names |-> b]
             ELSE Exec(stmts, k + 1, r.out @@ e, st, b \cup DOMAIN r.out)

(***************************************************************************)
(* The run: the cells are executed once, top to bottom.  An exception      *)
(* raised in a cell under the expect_exception magic is caught by the      *)
(* magic; any other exception stops the run.                               *)
(***************************************************************************)
Stores ==
    {[first |-> a, last |-> b] :
        a \in (FirstSelYear - MaxEarlier)..FirstSelYear,
        b \in LastSelYear..(LastSelYear + MaxLater)}

NbInit ==
    /\ store \in Stores
    /\ pc = 1
    /\ env = [n \in Names |-> Unbound]
    /\ binder = [n \in Names |-> 0]
    /\ raised = {}
    /\ halted = FALSE

\* the expect_exception magic is registered by importing expectexception
MagicOk(c, e) == c.magic = "none" \/ e["expectexception"] # Unbound

RunCell ==
    /\ ~halted
    /\ pc <= NCells
    /\ LET c == Cells[pc]
           r == IF MagicOk(c, env) THEN Exec(c.stmts, 1, env, store, {})
                ELSE [exc |-> "UsageError", env |-> env, names |-> {}]
           caught == c.magic = "expect_exception" /\ MagicOk(c, env)
       IN  /\ env' = r.env
           /\ binder' = [n \in Names |-> IF n \in r.names THEN pc ELSE binder[n]]
           /\ raised' = IF r.exc = "none" THEN raised ELSE raised \cup {<<pc, r.exc>>}
           /\ halted' = (r.exc # "none" /\ ~caught)
           /\ pc' = IF r.exc # "none" /\ ~caught THEN pc ELSE pc + 1
    /\ UNCHANGED store

HookIdle == config = << >> /\ hookPos = 0 /\ outcomes = << >>

GridIdle == grid = << >> /\ gpc = 0 /\ res = << >> /\ assignGroupCoord = FALSE

Init == NbInit /\ HookIdle /\ GridIdle

Next == RunCell /\ UNCHANGED <<hookvars, gridvars>>

Spec == Init /\ [][Next]_vars

(***************************************************************************)
(* Claims about the run of the notebook.                                   *)
(***************************************************************************)
CellAt(line) == CHOOSE i \in 1..NCells : Cells[i].line = line

TimeCell == CellAt(881)
ExpectCell == CellAt(896)
FixCell == CellAt(906)

Multiple(n, w) == \E k \in 0..n : k * w = n

\* shapes of every length up to MaxLen, to try coarsen on
TrialShapes ==
    {Arr("Dataset", <<"time", "lat", "lon">>,
         ("time" :> t) @@ ("lat" :> a) @@ ("lon" :> o), StoreLabels, {}) :
        t \in {0, 1, CoarsenTimeWindow}, a \in 0..MaxLen, o \in 0..MaxLen}

CoarsenExact(d, w) ==
    LET r == Coarsen(d, w)
    IN  /\ (r.exc # "none") <=> (\E c \in DOMAIN w : ~Multiple(d.size[c], w[c]))
        /\ r.exc = "none" =>
              /\ r.out.dims = d.dims
              /\ \A c \in DOMAIN d.size :
                    IF c \in DOMAIN w THEN r.out.size[c] * w[c] = d.size[c]
                    ELSE r.out.size[c] = d.size[c]

C1State ==
    /\ pc > ExpectCell =>
          /\ <<ExpectCell, "ValueError">> \in raised
          /\ ~Multiple(env["ds_anom"].size["lat"], CoarsenSpaceWindow)
          /\ ~halted
    /\ pc = ExpectCell + 1 => env["ds_anom_coarsen_space"] = Unbound
    /\ pc > FixCell =>
          /\ env["ds_anom_coarsen_space"] # Unbound
          /\ \A c \in {"lat", "lon"} :
                env["ds_anom_coarsen_space"].size[c] * CoarsenSpaceWindow
                    = IselDropLast(env["ds_anom"], "lat").size[c]
          /\ env["ds_anom_coarsen_space"].size["time"] = env["ds_anom"].size["time"]
    /\ \A d \in TrialShapes : CoarsenExact(d, SpaceWindows) /\ CoarsenExact(d, TimeWindow)

C1Step ==
    pc = ExpectCell =>
        /\ env'["ds_anom"] = env["ds_anom"]
        /\ env'["ds_anom_coarsen_space"] = Unbound
        /\ pc' = FixCell

\* C1: the coarsen(lon=4, lat=4) cell raises because the latitude length is
\* not a multiple of 4, leaving ds_anom as it was and ds_anom_coarsen_space
\* unbound; coarsen(...).mean() raises exactly when a coarsened dimension's
\* length is not a multiple of its window, and after isel(lat=slice(0, -1))
\* it succeeds with every coarsened length divided by the window.
C1_CoarsenExact == [](C1State) /\ [][C1Step]_vars

C1_Witness ==
    /\ pc > FixCell
    /\ <<ExpectCell, "ValueError">> \in raised
    /\ env["ds_anom_coarsen_space"] # Unbound
    /\ env["ds_anom_coarsen_space"].size["lat"] * CoarsenSpaceWindow = NLat - 1

ReadNames ==
    {"ds", "sst_kelvin", "sst", "weights", "sst_weighted", "gb", "ds_mm",
     "ds_anom", "resample_obj", "ds_anom_resample", "ds_anom_rolling",
     "ds_anom_coarsen_time", "ds_anom_coarsen_space", "group_name", "group_ds"}

\* the names statement k of a cell reads that the cell's earlier statements
\* did not bind
FreeReads(stmts, k, e, st) ==
    stmts[k].reads \ Exec(SubSeq(stmts, 1, k - 1), 1, e, st, {}).names

C3_DsReadOnly ==
    /\ [](env["ds"] \in {Unbound, OpenZarr(store)})
    /\ [][env["ds"] # Unbound => env'["ds"] = env["ds"]]_vars

C3_Witness == pc = NCells + 1 /\ env["ds"] = OpenZarr(store) /\ env["ds_anom"] # Unbound

(***************************************************************************)
(* The pre-commit configuration, as the YAML loader reads it.  A scalar is *)
(* its text and whether it is quoted; a plain scalar is resolved to a type *)
(* by its text, a quoted one is a string.                                  *)
(***************************************************************************)
Plain(text) == [quoted |-> FALSE, text |-> text]
Quoted(text) == [quoted |-> TRUE, text |-> text]

\* the texts of the file that YAML's implicit resolvers match
YamlIntTexts == {"100"}
YamlBoolTexts == {"yes", "no", "true", "false", "on", "off"}
YamlNullTexts == {"", "~", "null"}

YamlType(s) ==
    IF s.quoted THEN "str"
    ELSE IF s.text \in YamlIntTexts THEN "int"
    ELSE IF s.text \in YamlBoolTexts THEN "bool"
    ELSE IF s.text \in YamlNullTexts THEN "null"
    ELSE "str"

Value(s) == [type |-> YamlType(s), text |-> s.text]

Hook(id) == [id |-> Value(Plain(id))]
HookArgs(id, args) ==
    [id |-> Value(Plain(id)), args |-> [i \in DOMAIN args |-> Value(args[i])]]
Repo(url, rev, hooks) ==
    [repo |-> Value(Plain(url)), rev |-> Value(Plain(rev)), hooks |-> hooks]

BlackLineLengthUnquoted ==
    HookArgs("black", << Quoted("--line-length"), Plain("100") >>)

BlackHook == HookArgs("black", << Quoted("--line-length"), Quoted("100") >>)

PreCommitConfig == <<
    Repo("https://github.com/pre-commit/pre-commit-hooks", "v2.5.0",
         << Hook("trailing-whitespace"), Hook("end-of-file-fixer"),
            Hook("check-docstring-first"), Hook("check-json"), Hook("check-yaml"),
            HookArgs("pretty-format-json",
                     << Quoted("--autofix"), Quoted("--indent=2"),
                        Quoted("--no-sort-keys") >>) >>),
    Repo("https://github.com/ambv/black", "19.10b0", << BlackHook >>),
    Repo("https://gitlab.com/pycqa/flake8", "3.8.0a2", << Hook("flake8") >>),
    Repo("https://github.com/asottile/seed-isort-config", "v2.1.1",
         << Hook("seed-isort-config") >>),
    Repo("https://github.com/pre-commit/mirrors-isort", "v4.3.21", << Hook("isort") >>),
    Repo("https://github.com/deathbeds/prenotebook", "master", << Hook("prenotebook") >>),
    Repo("https://github.com/myint/rstcheck", "master", << Hook("rstcheck") >>) >>

\* the hooks of the configuration in file order, each with its repository
RECURSIVE HooksFrom(_, _)
HooksFrom(cfg, r) ==
    IF r > Len(cfg) THEN << >>
    ELSE [i \in DOMAIN cfg[r].hooks |-> [repo |-> r, hook |-> cfg[r].hooks[i]]]
            \o HooksFrom(cfg, r + 1)

HookList(cfg) == HooksFrom(cfg, 1)

HookOutcomes == {"Passed", "Failed"}

HookInit ==
    /\ config = PreCommitConfig
    /\ hookPos = 0
    /\ outcomes = << >>

\* the hook runner runs the next hook of the list; the hook passes or fails
RunHook ==
    /\ hookPos < Len(HookList(config))
    /\ \E o \in HookOutcomes : outcomes' = Append(outcomes, o)
    /\ hookPos' = hookPos + 1
    /\ UNCHANGED config

NbIdle ==
    /\ store = [first |-> FirstSelYear, last |-> LastSelYear]
    /\ pc = 1
    /\ env = [n \in Names |-> Unbound]
    /\ binder = [n \in Names |-> 0]
    /\ raised = {}
    /\ halted = FALSE

InitHooks == HookInit /\ NbIdle /\ GridIdle

NextHooks == RunHook /\ UNCHANGED <<nbvars, gridvars>>

SpecHooks == InitHooks /\ [][NextHooks]_vars

IsStr(v) == v.type = "str" /\ v.text # ""

HookWellFormed(h) ==
    /\ "id" \in DOMAIN h /\ IsStr(h.id)
    /\ DOMAIN h \subseteq {"id", "args"}
    /\ "args" \in DOMAIN h =>
          /\ DOMAIN h.args = 1..Len(h.args)
          /\ \A i \in DOMAIN h.args : h.args[i].type = "str"

RepoWellFormed(r) ==
    /\ DOMAIN r = {"repo", "rev", "hooks"}
    /\ IsStr(r.repo)
    /\ IsStr(r.rev)
    /\ Len(r.hooks) >= 1
    /\ \A i \in DOMAIN r.hooks : HookWellFormed(r.hooks[i])

\* C4: the pre-commit configuration is a sequence of records, each with a
\* repository URL, a revision and a non-empty list of hooks; every hook has
\* an id, and args, when present, is a list of strings.
C4_ConfigWellFormed ==
    /\ DOMAIN config = 1..Len(config)
    /\ \A r \in DOMAIN config : RepoWellFormed(config[r])
    /\ hookPos > 0 => HookWellFormed(HookList(config)[hookPos].hook)

C4_Witness ==
    /\ hookPos = Len(HookList(config))
    /\ Len(config) > 1
    /\ \E i \in 1..hookPos : "args" \in DOMAIN HookList(config)[i].hook

(***************************************************************************)
(* Values of the arrays: exact rationals <<numerator, denominator>> in     *)
(* lowest terms with a positive denominator, and NaN for a missing value.  *)
(* Arithmetic with NaN gives NaN.  A division by zero arises only as 0/0   *)
(* (the mean of no value), which is NaN.  Floating-point rounding is       *)
(* modelled where a mean is taken: its quotient is rounded to the float    *)
(* format, which has a short mantissa here.  The other operations are      *)
(* taken as exact.                                                         *)
(***************************************************************************)
NaN == <<0, 0>>
IsNaN(x) == x[2] = 0
Abs(n) == IF n < 0 THEN -n ELSE n

RECURSIVE GCD(_, _)
GCD(a, b) == IF b = 0 THEN a ELSE GCD(b, a % b)

Rat(n, d) ==
    LET g == GCD(Abs(n), Abs(d))
        s == IF d < 0 THEN -1 ELSE 1
    IN  <<(s * n) \div g, (s * d) \div g>>

Whole(n) == <<n, 1>>

RAdd(x, y) ==
    IF IsNaN(x) \/ IsNaN(y) THEN NaN ELSE Rat(x[1] * y[2] + y[1] * x[2], x[2] * y[2])
RSub(x, y) ==
    IF IsNaN(x) \/ IsNaN(y) THEN NaN ELSE Rat(x[1] * y[2] - y[1] * x[2], x[2] * y[2])
RMul(x, y) ==
    IF IsNaN(x) \/ IsNaN(y) THEN NaN ELSE Rat(x[1] * y[1], x[2] * y[2])
RDiv(x, y) ==
    IF IsNaN(x) \/ IsNaN(y) \/ y[1] = 0 THEN NaN ELSE Rat(x[1] * y[2], x[2] * y[1])

MantissaBits == 4      \* significant binary digits of a float

\* the magnitude n/d brought into [2^(MantissaBits-1), 2^MantissaBits) by a
\* power of two up/down, rounded to the nearest integer (ties to even) and
\* scaled back
RECURSIVE RoundScaled(_, _, _, _)
RoundScaled(n, d, up, down) ==
    IF n < (2 ^ (MantissaBits - 1)) * d THEN RoundScaled(2 * n, d, 2 * up, down)
    ELSE IF n >= (2 ^ MantissaBits) * d THEN RoundScaled(n, 2 * d, up, 2 * down)
    ELSE LET q == n \div d
             r == n % d
             near == IF 2 * r > d \/ (2 * r = d /\ q % 2 = 1) THEN q + 1 ELSE q
         IN  Rat(near * down, up)

\* the float nearest to x
Fl(x) ==
    IF IsNaN(x) \/ x[1] = 0 THEN x
    ELSE LET m == RoundScaled(Abs(x[1]), x[2], 1, 1)
         IN  IF x[1] < 0 THEN <<-m[1], m[2]>> ELSE m

\* the sum of f over the set ix of indices
RECURSIVE RSum(_, _)
RSum(ix, f) ==
    IF ix = {} THEN Whole(0)
    ELSE LET x == CHOOSE x \in ix : TRUE IN RAdd(f[x], RSum(ix \ {x}, f))

\* the elements of a set of integers in increasing order
RECURSIVE SortedSeq(_)
SortedSeq(ix) ==
    IF ix = {} THEN << >>
    ELSE LET m == CHOOSE x \in ix : \A y \in ix : x <= y
         IN  <<m>> \o SortedSeq(ix \ {m})

RECURSIVE Flatten(_)
Flatten(ss) == IF ss = << >> THEN << >> ELSE Head(ss) \o Flatten(Tail(ss))

(***************************************************************************)
(* Labelled arrays.  dims: the dimension names in axis order; coords: the  *)
(* labels of each dimension; aux: the non-index coordinates, each along    *)
(* one dimension; scalars: the scalar coordinates; data: the value at each *)
(* tuple of positions, one position per axis.  A Dataset holding the one   *)
(* variable sst is described by that variable.                             *)
(***************************************************************************)
MaxCells == 4          \* values held by the dataset of a grid run
MaxYears == 3          \* years of the time index of a grid run
MaxMonths == 2         \* months of each year of the time index of a grid run
MaxLat == 2            \* latitudes of a grid run
MaxLon == 2            \* longitudes of a grid run

\* a function written out as the table of its values
Table(f) == f @@ << >>

Array(dims, coords, aux, scalars, data) ==
    [dims |-> dims, coords |-> Table(coords), aux |-> Table(aux),
     scalars |-> Table(scalars), data |-> Table(data)]

AxisOf(dims, d) == CHOOSE k \in DOMAIN dims : dims[k] = d

\* every tuple of positions of an array with these dims and coords
RECURSIVE IdxFrom(_, _, _)
IdxFrom(dims, coords, k) ==
    IF k > Len(dims) THEN {<< >>}
    ELSE {<<p>> \o rest : p \in 1..Len(coords[dims[k]]),
                          rest \in IdxFrom(dims, coords, k + 1)}

IdxSet(dims, coords) == IdxFrom(dims, coords, 1)

\* the positions of tuple i of an array with dimensions dims, by name
Named(dims, i) == [d \in Range(dims) |-> i[AxisOf(dims, d)]]

\* the value of a at the named positions n (names a lacks are ignored)
At(a, n) == a.data[[k \in DOMAIN a.dims |-> n[a.dims[k]]]]

\* the arithmetic of an operator on two values
Arith(op, x, y) ==
    CASE op = "+" -> RAdd(x, y)
      [] op = "-" -> RSub(x, y)
      [] op = "*" -> RMul(x, y)
      [] op = "/" -> RDiv(x, y)

\* numpy's rule: the axes of b are matched with the last axes of a
BinaryByShape(op, a, b) ==
    LET off == Len(a.dims) - Len(b.dims)
    IN  Array(a.dims, a.coords, a.aux, a.scalars,
              [i \in DOMAIN a.data |->
                  Arith(op, a.data[i],
                        b.data[[k \in DOMAIN b.dims |->
                                   ((i[k + off] - 1) % Len(b.coords[b.dims[k]])) + 1]])])

\* a op b: the operands are broadcast against each other by dimension name
Binary(op, a, b) ==
    LET dims == a.dims \o SeqMinus(b.dims, Range(a.dims))
        coords == a.coords @@ b.coords
    IN  Array(dims, coords, a.aux @@ b.aux, a.scalars @@ b.scalars,
              [i \in IdxSet(dims, coords) |->
                  Arith(op, At(a, Named(dims, i)), At(b, Named(dims, i)))])

\* the tuples of a that lie over tuple j of the array reduced to rdims
Over(a, rest, j) ==
    {i \in DOMAIN a.data : \A k \in DOMAIN rest : i[AxisOf(a.dims, rest[k])] = j[k]}

Valid(a, ix) == {i \in ix : ~IsNaN(a.data[i])}

SumOf(a, ix) == RSum(ix, a.data)
\* the quotient taken as exact
MeanExact(a, ix) == RDiv(RSum(ix, a.data), Whole(Cardinality(ix)))

MeanOf(a, ix) == Fl(RDiv(RSum(ix, a.data), Whole(Cardinality(ix))))

\* a.sum(dim=rdims) and a.mean(dim=rdims): missing values are skipped
ReduceWith(how, a, rdims) ==
    LET rest == SeqMinus(a.dims, rdims)
        coords == Restrict(a.coords, Range(rest))
    IN  Array(rest, coords,
              [x \in {y \in DOMAIN a.aux : a.aux[y].dim \notin rdims} |-> a.aux[x]],
              a.scalars,
              [j \in IdxSet(rest, coords) |->
                  IF how = "sum" THEN SumOf(a, Valid(a, Over(a, rest, j)))
                  ELSE MeanOf(a, Valid(a, Over(a, rest, j)))])

Sum(a, rdims) == ReduceWith("sum", a, rdims)
Mean(a, rdims) == ReduceWith("mean", a, rdims)

\* a.isel(d=pos): the positions pos along dimension d, in that order
Isel(a, d, pos) ==
    LET k == AxisOf(a.dims, d)
        coords == [a.coords EXCEPT ![d] = [j \in DOMAIN pos |-> a.coords[d][pos[j]]]]
    IN  Array(a.dims, coords,
              [x \in DOMAIN a.aux |->
                  IF a.aux[x].dim = d
                  THEN [dim |-> d, vals |-> [j \in DOMAIN pos |-> a.aux[x].vals[pos[j]]]]
                  ELSE a.aux[x]],
              a.scalars,
              [i \in IdxSet(a.dims, coords) |-> a.data[[i EXCEPT ![k] = pos[i[k]]]]])

\* a.sel(d=label): the dimension is dropped and its label kept as a scalar
Sel(a, d, label) ==
    LET k == AxisOf(a.dims, d)
        p == CHOOSE p \in DOMAIN a.coords[d] : a.coords[d][p] = label
        rest == SeqMinus(a.dims, {d})
        coords == Restrict(a.coords, Range(rest))
    IN  Array(rest, coords, a.aux, (d :> label) @@ a.scalars,
              [j \in IdxSet(rest, coords) |->
                  a.data[[x \in DOMAIN a.dims |->
                             IF x < k THEN j[x] ELSE IF x = k THEN p ELSE j[x - 1]]]])

\* np.cos(np.deg2rad(degrees)), to three decimals
CosMilli(deg) ==
    CASE Abs(deg) = 0 -> 1000
      [] Abs(deg) = 30 -> 866
      [] Abs(deg) = 60 -> 500

Cos(deg) == Rat(CosMilli(deg), 1000)

\* np.cos(np.deg2rad(ds.lat)): an array along lat alone
CosOfLat(ds) ==
    Array(<<"lat">>, Restrict(ds.coords, {"lat"}), << >>, << >>,
          [i \in IdxSet(<<"lat">>, ds.coords) |-> Cos(ds.coords["lat"][i[1]])])

Notnull(x) == IF IsNaN(x) THEN Whole(0) ELSE Whole(1)
Fillna0(x) == IF IsNaN(x) THEN Whole(0) ELSE x
WhereNonZero(x) == IF ~IsNaN(x) /\ x[1] = 0 THEN NaN ELSE x

Elementwise(f, x) ==
    CASE f = "notnull" -> Notnull(x)
      [] f = "fillna" -> Fillna0(x)
      [] f = "where" -> WhereNonZero(x)
      [] f = "ones_like" -> Whole(1)

MapData(f, a) ==
    Array(a.dims, a.coords, a.aux, a.scalars,
          [i \in DOMAIN a.data |-> Elementwise(f, a.data[i])])

\* xr.dot(a, w, dims=rdims)
Dot(a, w, rdims) == Sum(Binary("*", a, w), rdims)

\* the sum of the weights of every cell, holding a value or not
SumOfAllWeights(da, w, rdims) ==
    MapData("where", Dot(MapData("ones_like", da), w, rdims))

\* da.weighted(w).mean(dim=rdims): the sum of the weighted values, missing
\* ones counting as 0, over the sum of the weights of the values present
SumOfWeights(da, w, rdims) == MapData("where", Dot(MapData("notnull", da), w, rdims))

WeightedMean(da, w, rdims) ==
    Binary("/", Dot(MapData("fillna", da), w, rdims), SumOfWeights(da, w, rdims))

(***************************************************************************)
(* Groupby: split by the values of a group variable, apply, combine.       *)
(***************************************************************************)
\* the year of each label, counted from 1, whatever the field
DtYearAsMonth(stamps, field) ==
    [p \in DOMAIN stamps |-> (stamps[p] \div MonthsPerYear) + 1]

\* ds.time.dt.<field> of time labels counted in months from the January of
\* the first year
DtField(stamps, field) ==
    [p \in DOMAIN stamps |->
        IF field = "month" THEN (stamps[p] % MonthsPerYear) + 1
        ELSE FirstSelYear + (stamps[p] \div MonthsPerYear)]

GroupVar(name, dim, vals) == [name |-> name, dim |-> dim, vals |-> vals]

\* ds["time.month"]: the name is split at the dot into a coordinate and a
\* field of its datetime accessor
VirtualVariable(ds, name) ==
    CASE name = "time.month" ->
            GroupVar("month", "time", DtField(ds.coords["time"], "month"))
      [] name = "time.year" ->
            GroupVar("year", "time", DtField(ds.coords["time"], "year"))

\* ds.groupby(group): the distinct values in increasing order, and for each
\* the positions that hold it
Grouped(ds, group) ==
    LET keys == SortedSeq(Range(group.vals))
    IN  [obj |-> ds, group |-> group, keys |-> keys,
         indices |-> [g \in DOMAIN keys |->
                         SortedSeq({p \in DOMAIN group.vals : group.vals[p] = keys[g]})]]

RECURSIVE Offset(_, _, _)
Offset(pieces, d, p) ==
    IF p = 1 THEN 0 ELSE Offset(pieces, d, p - 1) + Len(pieces[p - 1].coords[d])

\* xr.concat(pieces, dim=d) along a dimension the pieces have: a scalar
\* coordinate whose value differs between pieces becomes a coordinate along d
ConcatAlong(pieces, d) ==
    LET first == pieces[1]
        k == AxisOf(first.dims, d)
        part(p) == [j \in DOMAIN pieces[p].coords[d] |-> p]
        owner == Flatten([p \in DOMAIN pieces |-> part(p)])
        coords == [first.coords EXCEPT
                      ![d] = Flatten([p \in DOMAIN pieces |-> pieces[p].coords[d]])]
        same == {n \in DOMAIN first.scalars :
                    \A p \in DOMAIN pieces : pieces[p].scalars[n] = first.scalars[n]}
        spread == [n \in (DOMAIN first.scalars) \ same |->
                      [dim |-> d, vals |-> [q \in DOMAIN owner |-> pieces[owner[q]].scalars[n]]]]
        along == [x \in DOMAIN first.aux |->
                    IF first.aux[x].dim = d
                    THEN [dim |-> d,
                          vals |-> Flatten([p \in DOMAIN pieces |-> pieces[p].aux[x].vals])]
                    ELSE first.aux[x]]
    IN  Array(first.dims, coords, spread @@ along, Restrict(first.scalars, same),
              [i \in IdxSet(first.dims, coords) |->
                  pieces[owner[i[k]]].data[
                      [i EXCEPT ![k] = i[k] - Offset(pieces, d, owner[i[k]])]]])

\* xr.concat(pieces, dim=<new index>): the new dimension comes first
ConcatNew(pieces, name, keys) ==
    LET first == pieces[1]
        dims == <<name>> \o first.dims
        coords == (name :> keys) @@ first.coords
    IN  Array(dims, coords, first.aux, first.scalars,
              [i \in IdxSet(dims, coords) |-> pieces[i[1]].data[Tail(i)]])

\* the concatenated groups left in the order of the groups
NoReorder(a, d, indices) == a

\* the concatenated groups put back in the order of the original positions
Reorder(a, d, indices) ==
    LET flat == Flatten(indices)
    IN  Isel(a, d, [q \in DOMAIN flat |-> CHOOSE x \in DOMAIN flat : flat[x] = q])

\* combined[coord.name] = coord
AssignCoord(a, group) ==
    Array(a.dims, a.coords,
          (group.name :> [dim |-> group.dim, vals |-> group.vals]) @@ a.aux,
          Restrict(a.scalars, (DOMAIN a.scalars) \ {group.name}), a.data)

\* the results of the groups combined: along the grouped dimension when the
\* results kept it (a transformation), else along a new dimension that holds
\* the keys (a reduction).  Releases of xarray differ in whether the first
\* case assigns the group variable as a coordinate.
Combine(gb, applied) ==
    IF gb.group.dim \in Range(applied[1].dims)
    THEN LET c == Reorder(ConcatAlong(applied, gb.group.dim), gb.group.dim, gb.indices)
         IN  IF assignGroupCoord THEN AssignCoord(c, gb.group) ELSE c
    ELSE ConcatNew(applied, gb.group.name, gb.keys)

time_mean(a) == Mean(a, {"time"})

remove_time_mean(x) == Binary("-", x, Mean(x, {"time"}))

\* a call of the function f passed to map
Call(f, x) ==
    CASE f.name = "time_mean" -> time_mean(x)
      [] f.name = "remove_time_mean" -> remove_time_mean(x)
      [] f.name = "mean" -> Mean(x, f.dim)

Func(name) == [name |-> name]

\* gb.map(f): f applied to the part of the object that each group selects
GroupMap(f, gb) ==
    Combine(gb, Table([g \in DOMAIN gb.keys |->
                          Call(f, Isel(gb.obj, gb.group.dim, gb.indices[g]))]))

\* the mean of the whole object repeated for every key
MeanOverAll(gb, rdims) ==
    ConcatNew(Table([g \in DOMAIN gb.keys |-> Mean(gb.obj, rdims)]), gb.group.name, gb.keys)

\* gb.mean(dim=rdims)
GroupMeanOver(gb, rdims) == GroupMap([name |-> "mean", dim |-> rdims], gb)

\* each group minus the entry of other for the first key
GroupSubFirst(gb, other) ==
    Combine(gb, Table([g \in DOMAIN gb.keys |->
                          Binary("-", Isel(gb.obj, gb.group.dim, gb.indices[g]),
                                 Sel(other, gb.group.name, gb.keys[1]))]))

\* gb - other: each group minus the entry of other selected by its key
GroupSub(gb, other) ==
    Combine(gb, Table([g \in DOMAIN gb.keys |->
                          Binary("-", Isel(gb.obj, gb.group.dim, gb.indices[g]),
                                 Sel(other, gb.group.name, gb.keys[g]))]))

(***************************************************************************)
(* The array expressions of the notebook evaluated, in the order of the    *)
(* cells, on a small dataset: a few years of a few months each, on a few   *)
(* latitudes and longitudes, any value of which may be missing.            *)
(***************************************************************************)
None == [unset |-> TRUE]

ResNames ==
    {"weights", "product", "sst_mean", "weighted_mean", "gb_array", "gb",
     "mapped", "ds_mm", "ds_anom_map", "ds_anom", "ds_anom_again"}

SstVals == {NaN, Whole(-1), Whole(1), Whole(2)}

DimOrders ==
    {<<"time", "lat", "lon">>, <<"time", "lon", "lat">>, <<"lat", "time", "lon">>,
     <<"lat", "lon", "time">>, <<"lon", "time", "lat">>, <<"lon", "lat", "time">>}

TimeIndex(ny, nm) ==
    [q \in 1..(ny * nm) |-> MonthsPerYear * ((q - 1) \div nm) + ((q - 1) % nm)]
LatLabels(n) == [j \in 1..n |-> 60 - 30 * (j - 1)]
LonLabels(n) == [j \in 1..n |-> GridStep * (j - 1)]

GridCoords(ny, nm, nlat, nlon) ==
    ("time" :> TimeIndex(ny, nm)) @@ ("lat" :> LatLabels(nlat)) @@ ("lon" :> LonLabels(nlon))

GridInit ==
    /\ \E ny \in 1..MaxYears, nm \in 1..MaxMonths, nlat \in 1..MaxLat, nlon \in 1..MaxLon :
          /\ ny * nm * nlat * nlon <= MaxCells
          /\ \E dims \in DimOrders :
                \E data \in [IdxSet(dims, GridCoords(ny, nm, nlat, nlon)) -> SstVals] :
                    grid = Array(dims, GridCoords(ny, nm, nlat, nlon), << >>, << >>, data)
    /\ gpc = 1
    /\ res = [n \in ResNames |-> None]
    /\ assignGroupCoord \in BOOLEAN

Step(k, name, val) ==
    /\ gpc = k
    /\ gpc' = k + 1
    /\ res' = [res EXCEPT ![name] = val]
    /\ UNCHANGED <<grid, assignGroupCoord>>

\* weights = np.cos(np.deg2rad(ds.lat))
EvalWeights == Step(1, "weights", CosOfLat(grid))

\* ds.sst * weights
EvalProduct == Step(2, "product", Binary("*", grid, res["weights"]))

\* sst_mean = (ds.sst * weights).sum(dim=("lon", "lat")) / weights.sum(dim="lat")
EvalManualMean ==
    Step(3, "sst_mean",
         Binary("/", Sum(Binary("*", grid, res["weights"]), {"lon", "lat"}),
                Sum(res["weights"], {"lat"})))

\* ds.sst.weighted(weights).mean(dim=("lon", "lat"))
EvalWeightedMean ==
    Step(4, "weighted_mean", WeightedMean(grid, res["weights"], {"lon", "lat"}))

\* gb = ds.groupby(ds.time.dt.month)
EvalGroupbyArray ==
    Step(5, "gb_array",
         Grouped(grid, GroupVar("month", "time", DtField(grid.coords["time"], "month"))))

\* gb = ds.groupby("time.month")
EvalGroupbyName == Step(6, "gb", Grouped(grid, VirtualVariable(grid, "time.month")))

\* gb.map(time_mean)
EvalMapTimeMean == Step(7, "mapped", GroupMap(Func("time_mean"), res["gb"]))

\* ds_mm = gb.mean(dim="time")
EvalGroupMean == Step(8, "ds_mm", GroupMeanOver(res["gb"], {"time"}))

\* ds_anom = ds.groupby("time.month").map(remove_time_mean)
EvalAnomMap ==
    Step(9, "ds_anom_map",
         GroupMap(Func("remove_time_mean"), Grouped(grid, VirtualVariable(grid, "time.month"))))

\* gb = ds.groupby("time.month"); ds_anom = gb - gb.mean(dim="time")
EvalAnomArith ==
    Step(10, "ds_anom",
         LET gb == Grouped(grid, VirtualVariable(grid, "time.month"))
         IN  GroupSub(gb, GroupMeanOver(gb, {"time"})))

\* remove_time_mean applied per month to the anomaly:
\* ds_anom.groupby("time.month").map(remove_time_mean)
EvalAnomAgain ==
    Step(11, "ds_anom_again",
         GroupMap(Func("remove_time_mean"),
                  Grouped(res["ds_anom"], VirtualVariable(res["ds_anom"], "time.month"))))

InitGrid == GridInit /\ NbIdle /\ HookIdle

NextGrid ==
    /\ \/ EvalWeights
       \/ EvalProduct
       \/ EvalManualMean
       \/ EvalWeightedMean
       \/ EvalGroupbyArray
       \/ EvalGroupbyName
       \/ EvalMapTimeMean
       \/ EvalGroupMean
       \/ EvalAnomMap
       \/ EvalAnomArith
       \/ EvalAnomAgain
    /\ UNCHANGED <<nbvars, hookvars>>

SpecGrid == InitGrid /\ [][NextGrid]_vars

(***************************************************************************)
(* Reference quantities of a grid run, computed from the dataset itself.   *)
(***************************************************************************)
Times == DOMAIN grid.coords["time"]
Lats == DOMAIN grid.coords["lat"]
Lons == DOMAIN grid.coords["lon"]

Sst(t, la, lo) == At(grid, ("time" :> t) @@ ("lat" :> la) @@ ("lon" :> lo))
WeightAt(la) == res["weights"].data[<<la>>]

MonthOf(stamp) == (stamp % MonthsPerYear) + 1
MonthAt(t) == MonthOf(grid.coords["time"][t])
MonthsPresent == {MonthAt(t) : t \in Times}
StepsOf(m) == {t \in Times : MonthAt(t) = m}

\* the cells of time step t that hold a value
Present(t) == {c \in Lats \X Lons : ~IsNaN(Sst(t, c[1], c[2]))}
NoneMissing(t) == Present(t) = Lats \X Lons
WSum(t) == RSum(Present(t), [c \in Present(t) |-> RMul(Sst(t, c[1], c[2]), WeightAt(c[1]))])
WPresent(t) == RSum(Present(t), [c \in Present(t) |-> WeightAt(c[1])])
WLat == RSum(Lats, [la \in Lats |-> WeightAt(la)])

Manual(t) == res["sst_mean"].data[<<t>>]
Weighted(t) == res["weighted_mean"].data[<<t>>]

\* the mean, over the time steps of month m, of the values present at a cell
MonthMean(m, la, lo) ==
    LET ok == {t \in StepsOf(m) : ~IsNaN(Sst(t, la, lo))}
    IN  Fl(RDiv(RSum(ok, [t \in ok |-> Sst(t, la, lo)]), Whole(Cardinality(ok))))

Cell3(d, p, la, lo) == (d :> p) @@ ("lat" :> la) @@ ("lon" :> lo)

HasMonth(a) == "month" \in (DOMAIN a.aux) \cup (DOMAIN a.scalars)

\* C5 (as amended): at each time step the weighted mean is the weighted sum
\* of the values present over the sum of the weights of the cells present
\* (missing when no cell is present), and the manual expression is the same
\* weighted sum over the sum of the weights of the latitudes.  The two agree
\* exactly when some cell is present and either the weighted sum is zero or
\* the weights of the cells present add up to the weights of the latitudes;
\* so they agree on one longitude with no cell missing, and with no cell
\* missing the manual result is the number of longitudes times the weighted
\* mean.
C5_WeightedMean ==
    gpc > 4 =>
        \A t \in Times :
            /\ Weighted(t) = IF Present(t) = {} THEN NaN ELSE RDiv(WSum(t), WPresent(t))
            /\ Manual(t) = RDiv(WSum(t), WLat)
            /\ (Manual(t) = Weighted(t)) <=>
                   (Present(t) # {} /\ (WSum(t) = Whole(0) \/ WPresent(t) = WLat))
            /\ (Cardinality(Lons) = 1 /\ NoneMissing(t)) => Manual(t) = Weighted(t)
            /\ NoneMissing(t) => Manual(t) = RMul(Whole(Cardinality(Lons)), Weighted(t))

\* several longitudes, a missing cell, a weighted mean that is not zero, and
\* yet the manual result equals it
C5_Witness ==
    /\ gpc > 4
    /\ \E t \in Times :
          /\ Cardinality(Lons) > 1
          /\ ~NoneMissing(t)
          /\ WSum(t) # Whole(0)
          /\ Manual(t) = Weighted(t)

\* C5 as stated: the two agree on one longitude with no cell missing, and
\* differ whenever there are several longitudes or a missing cell
C5_Original ==
    gpc > 4 =>
        \A t \in Times :
            /\ (Cardinality(Lons) = 1 /\ NoneMissing(t)) => Manual(t) = Weighted(t)
            /\ (Cardinality(Lons) > 1 \/ ~NoneMissing(t)) => Manual(t) # Weighted(t)

\* C6: gb.mean(dim="time") and gb.map(time_mean) are the same dataset, with
\* one entry per month present in the time index; the entry of month m at a
\* (lat, lon) is the mean over the time steps whose month is m
C6_MeanIsMapTimeMean ==
    gpc > 8 =>
        LET mm == res["ds_mm"]
            keys == mm.coords["month"]
        IN  /\ res["mapped"] = mm
            /\ Range(keys) = MonthsPresent
            /\ Len(keys) = Cardinality(MonthsPresent)
            /\ \A g \in DOMAIN keys, la \in Lats, lo \in Lons :
                  At(mm, Cell3("month", g, la, lo)) = MonthMean(keys[g], la, lo)

C6_Witness ==
    /\ gpc > 8
    /\ Cardinality(MonthsPresent) = 2
    /\ \E t \in Times, u \in Times :
          /\ t # u
          /\ MonthAt(t) = MonthAt(u)
          /\ ~IsNaN(Sst(t, 1, 1))
          /\ ~IsNaN(Sst(u, 1, 1))
          /\ Sst(t, 1, 1) # Sst(u, 1, 1)

\* C7: the transformation keeps the time steps of ds, each once and in the
\* original order, and lat and lon, each value being the value of ds minus
\* the mean of its month; the aggregation has no time dimension and one
\* month entry per month present
C7_TransformKeepsSize ==
    gpc > 9 =>
        LET a == res["ds_anom_map"]
            mm == res["ds_mm"]
        IN  /\ a.dims = grid.dims
            /\ a.coords = grid.coords
            /\ DOMAIN a.data = DOMAIN grid.data
            /\ \A t \in Times, la \in Lats, lo \in Lons :
                  At(a, Cell3("time", t, la, lo)) =
                      RSub(Sst(t, la, lo), MonthMean(MonthAt(t), la, lo))
            /\ "time" \notin Range(mm.dims)
            /\ "time" \notin DOMAIN mm.coords
            /\ "month" \in Range(mm.dims)
            /\ Len(mm.coords["month"]) = Cardinality(MonthsPresent)
            /\ Cardinality(Range(mm.coords["month"])) = Cardinality(MonthsPresent)

\* two years of two months each: the groups interleave in time
C7_Witness ==
    /\ gpc > 9
    /\ Cardinality(Times) = 4
    /\ Cardinality(MonthsPresent) = 2
    /\ \E t \in Times :
          /\ ~IsNaN(At(res["ds_anom_map"], Cell3("time", t, 1, 1)))
          /\ At(res["ds_anom_map"], Cell3("time", t, 1, 1)) # Whole(0)

\* C8: grouping by the name "time.month" and by the array ds.time.dt.month
\* give the same groups, which are disjoint, cover every time step, and
\* each hold the time steps whose calendar month is the group's key
C8_GroupbyNameIsArray ==
    gpc > 6 =>
        LET gb == res["gb"]
            G == DOMAIN gb.keys
        IN  /\ gb = res["gb_array"]
            /\ \A g \in G, h \in G :
                  g # h => Range(gb.indices[g]) \cap Range(gb.indices[h]) = {}
            /\ UNION {Range(gb.indices[g]) : g \in G} = Times
            /\ \A g \in G :
                  /\ Range(gb.indices[g]) = StepsOf(gb.keys[g])
                  /\ Len(gb.indices[g]) = Cardinality(StepsOf(gb.keys[g]))

C8_Witness ==
    /\ gpc > 6
    /\ Len(res["gb"].keys) = 2
    /\ Len(res["gb"].indices[1]) = 2
    /\ res["gb"].indices[2] = <<2, 4>>

\* C9: ds.sst * weights has the dimensions of ds.sst in the same order and
\* its value at (time, lat, lon) is sst[time, lat, lon] * weights[lat],
\* whatever the position of lat among the axes
C9_BroadcastByName ==
    gpc > 2 =>
        LET p == res["product"]
        IN  /\ p.dims = grid.dims
            /\ p.coords = grid.coords
            /\ DOMAIN p.data = DOMAIN grid.data
            /\ res["weights"].dims = <<"lat">>
            /\ \A t \in Times, la \in Lats, lo \in Lons :
                  At(p, Cell3("time", t, la, lo)) = RMul(Sst(t, la, lo), WeightAt(la))

\* lat is not the last axis, the latitudes have different weights and the
\* last axis has another length than lat
C9_Witness ==
    /\ gpc > 2
    /\ grid.dims[3] # "lat"
    /\ Cardinality(Lats) = 2
    /\ Len(grid.coords[grid.dims[3]]) = 1
    /\ \A la \in Lats : ~IsNaN(Sst(1, la, 1))

\* C10 (as amended): the two anomalies have the same dimensions, the same
\* time, lat and lon labels in the same order and the same values; the
\* result of the groupby arithmetic carries a coordinate month, which the
\* result of map carries only under a release of xarray that assigns the
\* group variable to a transformed result, and only then are the two the
\* same dataset
C10_AnomaliesAgree ==
    gpc > 10 =>
        LET a == res["ds_anom_map"]
            b == res["ds_anom"]
        IN  /\ a.dims = b.dims
            /\ a.coords = b.coords
            /\ a.data = b.data
            /\ HasMonth(b)
            /\ HasMonth(a) <=> assignGroupCoord
            /\ (a = b) <=> assignGroupCoord

C10_Witness ==
    /\ gpc > 10
    /\ ~assignGroupCoord
    /\ Cardinality(Times) = 4
    /\ Cardinality(MonthsPresent) = 2
    /\ res["ds_anom"].aux["month"].vals = <<1, 2, 1, 2>>
    /\ \E t \in Times :
          /\ ~IsNaN(At(res["ds_anom"], Cell3("time", t, 1, 1)))
          /\ At(res["ds_anom"], Cell3("time", t, 1, 1)) # Whole(0)

\* C10 as stated: the two ways give the same dataset
C10_Original == gpc > 10 => res["ds_anom_map"] = res["ds_anom"]

\* the anomaly at a cell of a time step
Anom(t, la, lo) == At(res["ds_anom"], Cell3("time", t, la, lo))

\* the time steps of month m that hold a value at a cell
Held(m, la, lo) == {t \in StepsOf(m) : ~IsNaN(Sst(t, la, lo))}

ExactSum(m, la, lo) == RSum(Held(m, la, lo), [t \in Held(m, la, lo) |-> Sst(t, la, lo)])
ExactMean(m, la, lo) == RDiv(ExactSum(m, la, lo), Whole(Cardinality(Held(m, la, lo))))
AnomSum(m, la, lo) == RSum(Held(m, la, lo), [t \in Held(m, la, lo) |-> Anom(t, la, lo)])

\* every monthly mean of a cell that holds a value is a float
MeansExact ==
    \A m \in MonthsPresent, la \in Lats, lo \in Lons :
        Held(m, la, lo) # {} => MonthMean(m, la, lo) = ExactMean(m, la, lo)

====
